---- MODULE Spec2Model ----
(***************************************************************************)
(* State-machine model of the k8s-controller "server" command: the         *)
(* startup loop that validates namespaces and starts one Deployment        *)
(* informer per namespace, the informer manager and its watchers, the      *)
(* FastHTTP listener with its request handlers, the controller-runtime     *)
(* manager goroutine, and the graceful-shutdown sequence.                  *)
(***************************************************************************)
EXTENDS Integers, Sequences, FiniteSets, TLC

(* ---------------------------- bounds ----------------------------------- *)
\* longest configured namespace list (--namespace a,b)
MaxNamespaces == 2
\* how many termination signals the OS delivers in one run
MaxSignals == 2
\* how many watch events the cluster emits in one run
MaxEvents == 2
\* how many Deployment events reach the controller manager in one run
MaxReconciles == 2

(* --------------------------- universes --------------------------------- *)
\* namespace names that may be configured or exist in the cluster
Namespaces == {"a", "b"}
\* Deployment names
Names == {"x", "y"}
\* watcher lifecycle states; "None" = no watcher was ever created
WatcherStates ==
  {"None", "Created", "Syncing", "Ready", "Failed", "ShuttingDown", "Stopped"}

VARIABLES
  namespacesToWatch,   \* parsed --namespace / NAMESPACE list, in order
  kubeConfigured,      \* kubeconfig != "" || inCluster
  clusterNamespaces,   \* namespaces that exist in the cluster
  clusterDeployments,  \* Deployments that exist in the cluster, per namespace
  pc,                  \* position of serverCmd.Run
  idx,                 \* index of the startup loop over namespacesToWatch
  informers,           \* queryable registry of the informer manager
  wstate,              \* lifecycle state of each namespace's watcher
  hasSynced,           \* informer.HasSynced of each watcher
  store,               \* local cache (informer store) of each watcher
  created,             \* how many watchers were ever created per namespace
  calls,               \* how many times StartInformer was called per namespace
  ctxDone,             \* the shared context ctx was cancelled
  wg,                  \* sync.WaitGroup counter
  listener,            \* state of the ListenAndServe goroutine
  mgr,                 \* state of the controller-runtime manager goroutine
  sigChan,             \* signals buffered in sigChan (capacity 1)
  sigSent,             \* signals the OS has delivered so far
  trigger,             \* which select case started the shutdown
  conn,                \* the open HTTP connection: request and response
  emitted,             \* watch events emitted to each namespace's watcher
  applied,             \* how many of them the watcher has applied to its cache
  workqueue,           \* reconcile requests queued by the controller
  reconcile,           \* the last event or request the controller dealt with
  sources,             \* one setting as the command line, environment and
                       \* .env file give it
  appConfig,           \* the setting as LoadConfig left it in appConfig
  cfg,                 \* the setting as Run uses it
  scan,                \* a running handleGetDeployments: its place in the
                       \* namespace list and what it has gathered
  replicas             \* spec.replicas of each Deployment of the cluster

vars == <<namespacesToWatch, kubeConfigured, clusterNamespaces,
          clusterDeployments, pc, idx, informers, wstate, hasSynced, store,
          created, calls, ctxDone, wg, listener, mgr, sigChan, sigSent,
          trigger, conn, emitted, applied, workqueue, reconcile,
          sources, appConfig, cfg, scan, replicas>>

\* the configuration being resolved and the handler running in steps
sideVars == <<sources, appConfig, cfg, scan, replicas>>

\* the watch events and the controller's queue
envVars == <<emitted, applied, workqueue, reconcile>>

cfgVars == <<namespacesToWatch, kubeConfigured, clusterNamespaces,
             clusterDeployments>>
watchVars == <<informers, wstate, hasSynced, store, created>>

(* ----------------------------- helpers --------------------------------- *)
Range(s) == {s[i] : i \in 1..Len(s)}

\* all sequences over S of length 1..n
SeqsUpTo(S, n) == UNION {[1..k -> S] : k \in 1..n}

\* no request, no response, and the idle connection
NoReq == [method |-> "", path |-> <<>>]
NoResp == [status |-> 0, body |-> [error |-> ""]]
NoConn == [state |-> "idle", req |-> NoReq, resp |-> NoResp]

\* no setting is followed
NoSources ==
  [setting |-> "none", cli |-> "<unset>", env |-> "<unset>",
   file |-> "<unset>", fileOk |-> TRUE]

\* no handleGetDeployments is running
NoScan == [state |-> "idle", status |-> 0, nsList |-> <<>>, pos |-> 0,
           responses |-> <<>>, total |-> 0, seen |-> {}]

\* the controller has dealt with nothing yet
NoReconcile ==
  [seen |-> 0, namespace |-> "", name |-> "", passed |-> FALSE,
   called |-> FALSE, read |-> FALSE, found |-> FALSE, err |-> FALSE,
   requeue |-> FALSE]

(* ------------------------- informer manager ---------------------------- *)
\* a membership test answering yes as soon as a watcher was created
HasInformer_Created(ns) == ns \in Namespaces /\ wstate[ns] # "None"

\* HasInformer: membership test on the registry
HasInformer(ns) == ns \in informers

\* the registry keys, whatever the state of their watchers
GetAvailableNamespaces_AllKeys == informers

\* GetAvailableNamespaces: the namespaces whose watcher is Ready
GetAvailableNamespaces == {ns \in informers : wstate[ns] = "Ready"}

\* the cache content, whatever the state of the watcher
GetDeploymentNames_AnyState(ns) ==
  IF ns \in Namespaces THEN store[ns] ELSE {}

\* GetDeploymentNames: names in the watcher's cache, empty without a Ready watcher
GetDeploymentNames(ns) ==
  IF ns \in Namespaces /\ ns \in informers /\ wstate[ns] = "Ready"
  THEN store[ns] ELSE {}

(* ------------------------------ Init ----------------------------------- *)
Init ==
  /\ namespacesToWatch \in SeqsUpTo(Namespaces, MaxNamespaces)
  /\ kubeConfigured \in BOOLEAN
  /\ clusterNamespaces \in SUBSET Namespaces
  /\ clusterDeployments \in
       {[n \in Namespaces |-> {}],
        [n \in Namespaces |-> IF n = "a" THEN {"x", "y"} ELSE {}],
        [n \in Namespaces |-> {"x", "y"}]}
  /\ pc = "start"
  /\ idx = 1
  /\ informers = {}
  /\ wstate = [n \in Namespaces |-> "None"]
  /\ hasSynced = [n \in Namespaces |-> FALSE]
  /\ store = [n \in Namespaces |-> {}]
  /\ created = [n \in Namespaces |-> 0]
  /\ calls = [n \in Namespaces |-> 0]
  /\ ctxDone = FALSE
  /\ wg = 0
  /\ listener = "none"
  /\ mgr = "none"
  /\ sigChan = 0
  /\ sigSent = 0
  /\ trigger = "none"
  /\ conn = NoConn
  /\ emitted = [n \in Namespaces |-> <<>>]
  /\ applied = [n \in Namespaces |-> 0]
  /\ workqueue = {}
  /\ reconcile = NoReconcile
  /\ sources = NoSources
  /\ appConfig = "<unloaded>"
  /\ cfg = "<unresolved>"
  /\ scan = NoScan
  /\ replicas = [n \in Namespaces |-> [d \in Names |-> 1]]

(* --------------------------- serverCmd.Run ----------------------------- *)
\* CheckNamespace: Exists is true when the namespace Get succeeds
CheckNamespace(ns) == [Exists |-> ns \in clusterNamespaces, Namespace |-> ns]

\* lines 111-123 and 198-203: choose the branch, create the client and manager
GetServerKubeClient ==
  /\ pc = "start"
  /\ \/ /\ kubeConfigured
        /\ \E err \in BOOLEAN :
             pc' = IF err THEN "exit1" ELSE "loop"
     \/ /\ ~kubeConfigured
        /\ pc' = "http"
  /\ UNCHANGED <<sideVars, envVars, cfgVars, watchVars, idx, calls, ctxDone, wg, listener, mgr,
                 sigChan, sigSent, trigger, conn>>

\* the loop without the skip: StartInformer is reached for every namespace
LoopCheckNamespace_NoSkip ==
  /\ pc = "loop"
  /\ idx <= Len(namespacesToWatch)
  /\ pc' = "start_informer"
  /\ idx' = idx
  /\ UNCHANGED <<sideVars, envVars, cfgVars, watchVars, calls, ctxDone, wg, listener, mgr,
                 sigChan, sigSent, trigger, conn>>

\* the loop skipping every namespace, whatever the check says
LoopCheckNamespace_SkipAll ==
  /\ pc = "loop"
  /\ idx <= Len(namespacesToWatch)
  /\ pc' = "loop"
  /\ idx' = idx + 1
  /\ UNCHANGED <<sideVars, envVars, cfgVars, watchVars, calls, ctxDone, wg, listener, mgr,
                 sigChan, sigSent, trigger, conn>>

\* lines 126-132: validate the next namespace; skip it when it does not exist
LoopCheckNamespace ==
  /\ pc = "loop"
  /\ idx <= Len(namespacesToWatch)
  /\ IF CheckNamespace(namespacesToWatch[idx]).Exists
     THEN pc' = "start_informer" /\ idx' = idx
     ELSE pc' = "loop" /\ idx' = idx + 1
  /\ UNCHANGED <<sideVars, envVars, cfgVars, watchVars, calls, ctxDone, wg, listener, mgr,
                 sigChan, sigSent, trigger, conn>>


\* StartInformer without the "already exists" check
StartInformerCall_NoExistsCheck ==
  /\ pc = "start_informer"
  /\ LET ns == namespacesToWatch[idx] IN
       /\ calls' = [calls EXCEPT ![ns] = @ + 1]
       /\ wstate' = [wstate EXCEPT ![ns] = "Created"]
       /\ created' = [created EXCEPT ![ns] = @ + 1]
       /\ pc' = "sync_wait"
       /\ idx' = idx
  /\ UNCHANGED <<sideVars, envVars, cfgVars, informers, hasSynced, store, ctxDone, wg, listener,
                 mgr, sigChan, sigSent, trigger, conn>>

\* StartInformer, entry: a no-op when a watcher already exists for the
\* namespace, otherwise create the watcher and block until its sync ends
StartInformerCall ==
  /\ pc = "start_informer"
  /\ LET ns == namespacesToWatch[idx] IN
       /\ calls' = [calls EXCEPT ![ns] = @ + 1]
       /\ IF wstate[ns] # "None"
          THEN /\ pc' = "loop"
               /\ idx' = idx + 1
               /\ UNCHANGED <<wstate, created>>
          ELSE /\ wstate' = [wstate EXCEPT ![ns] = "Created"]
               /\ created' = [created EXCEPT ![ns] = @ + 1]
               /\ pc' = "sync_wait"
               /\ idx' = idx
  /\ UNCHANGED <<sideVars, envVars, cfgVars, informers, hasSynced, store, ctxDone, wg, listener,
                 mgr, sigChan, sigSent, trigger, conn>>

\* StartInformer returning without waiting for the sync to end
StartInformerReturn_NoWait ==
  /\ pc = "sync_wait"
  /\ pc' = "loop"
  /\ idx' = idx + 1
  /\ UNCHANGED <<sideVars, envVars, cfgVars, watchVars, calls, ctxDone, wg, listener, mgr,
                 sigChan, sigSent, trigger, conn>>

\* StartInformer, exit: the caller resumes once the watcher is Ready or Failed
StartInformerReturn ==
  /\ pc = "sync_wait"
  /\ wstate[namespacesToWatch[idx]] \in {"Ready", "Failed"}
  /\ pc' = "loop"
  /\ idx' = idx + 1
  /\ UNCHANGED <<sideVars, envVars, cfgVars, watchVars, calls, ctxDone, wg, listener, mgr,
                 sigChan, sigSent, trigger, conn>>

\* lines 136-139: the loop is over, the handler manager is created
LoopEnd ==
  /\ pc = "loop"
  /\ idx > Len(namespacesToWatch)
  /\ pc' = "new_manager"
  /\ UNCHANGED <<sideVars, envVars, cfgVars, watchVars, idx, calls, ctxDone, wg, listener, mgr,
                 sigChan, sigSent, trigger, conn>>

\* lines 182-197: create the controller-runtime manager, add the controller
\* (either failure is os.Exit(1)) and launch mgr.Start in a goroutine
NewManager ==
  /\ pc = "new_manager"
  /\ \E err \in BOOLEAN :
       IF err THEN pc' = "exit1" /\ mgr' = mgr
              ELSE pc' = "http" /\ mgr' = "running"
  /\ UNCHANGED <<sideVars, envVars, cfgVars, watchVars, idx, calls, ctxDone, wg, listener,
                 sigChan, sigSent, trigger, conn>>

\* a Run that launches the listener goroutine before its startup loop
StartHTTP_Early ==
  \/ /\ pc = "loop"
     /\ listener = "none"
     /\ wg' = wg + 1
     /\ listener' = "starting"
     /\ pc' = pc
     /\ UNCHANGED <<sideVars, envVars, cfgVars, watchVars, idx, calls, ctxDone, mgr, sigChan,
                    sigSent, trigger, conn>>
  \/ /\ pc = "http"
     /\ wg' = IF listener = "none" THEN wg + 1 ELSE wg
     /\ listener' = IF listener = "none" THEN "starting" ELSE listener
     /\ pc' = "select"
     /\ UNCHANGED <<sideVars, envVars, cfgVars, watchVars, idx, calls, ctxDone, mgr, sigChan,
                    sigSent, trigger, conn>>

\* lines 212-229: wg.Add(1), launch the listener goroutine, signal.Notify
StartHTTP ==
  /\ pc = "http"
  /\ wg' = wg + 1
  /\ listener' = "starting"
  /\ pc' = "select"
  /\ UNCHANGED <<sideVars, envVars, cfgVars, watchVars, idx, calls, ctxDone, mgr, sigChan,
                 sigSent, trigger, conn>>

\* a select that also takes a signal while Run is in its final wait, and
\* starts the shutdown sequence over
SelectSignal_Again ==
  /\ pc \in {"select", "wait"}
  /\ sigChan > 0
  /\ sigChan' = sigChan - 1
  /\ trigger' = "signal"
  /\ pc' = "shutdown"
  /\ UNCHANGED <<sideVars, envVars, cfgVars, watchVars, idx, calls, ctxDone, wg, listener, mgr,
                 sigSent, conn>>

\* lines 232-234: the select receives a signal
SelectSignal ==
  /\ pc = "select"
  /\ sigChan > 0
  /\ sigChan' = sigChan - 1
  /\ trigger' = "signal"
  /\ pc' = "shutdown"
  /\ UNCHANGED <<sideVars, envVars, cfgVars, watchVars, idx, calls, ctxDone, wg, listener, mgr,
                 sigSent, conn>>

\* lines 235-236: the select sees the shared context cancelled
SelectCtxDone ==
  /\ pc = "select"
  /\ ctxDone
  /\ trigger' = "ctx"
  /\ pc' = "shutdown"
  /\ UNCHANGED <<sideVars, envVars, cfgVars, watchVars, idx, calls, ctxDone, wg, listener, mgr,
                 sigChan, sigSent, conn>>

\* line 241, first half: server.Shutdown closes a bound listener; it does
\* nothing to a listener that is not (or no longer) bound
ServerShutdown ==
  /\ pc = "shutdown"
  /\ listener' = IF listener = "serving" THEN "closed" ELSE listener
  /\ pc' = "draining"
  /\ UNCHANGED <<sideVars, envVars, cfgVars, watchVars, idx, calls, ctxDone, wg, mgr, sigChan,
                 sigSent, trigger, conn>>

\* line 241, second half: server.Shutdown returns when no connection is open
ServerShutdownReturn ==
  /\ pc = "draining"
  /\ conn = NoConn
  /\ pc' = "cancel"
  /\ UNCHANGED <<sideVars, envVars, cfgVars, watchVars, idx, calls, ctxDone, wg, listener, mgr,
                 sigChan, sigSent, trigger, conn>>

\* line 246: cancel the shared context
CancelCtx ==
  /\ pc = "cancel"
  /\ ctxDone' = TRUE
  /\ pc' = "wait"
  /\ UNCHANGED <<sideVars, envVars, cfgVars, watchVars, idx, calls, wg, listener, mgr, sigChan,
                 sigSent, trigger, conn>>

\* lines 250-252: wg.Wait returns, "Graceful shutdown completed" is logged
WgWait ==
  /\ pc = "wait"
  /\ wg = 0
  /\ pc' = "done"
  /\ UNCHANGED <<sideVars, envVars, cfgVars, watchVars, idx, calls, ctxDone, wg, listener, mgr,
                 sigChan, sigSent, trigger, conn>>

\* the process is alive: Run has neither returned nor called os.Exit
Alive == pc \notin {"done", "exit1"}

\* the OS delivers SIGTERM or SIGINT after signal.Notify; a signal that finds
\* the one-slot channel full is dropped
Signal ==
  /\ Alive
  /\ pc \in {"select", "shutdown", "draining", "cancel", "wait"}
  /\ sigSent < MaxSignals
  /\ sigSent' = sigSent + 1
  /\ sigChan' = IF sigChan = 0 THEN 1 ELSE sigChan
  /\ UNCHANGED <<sideVars, envVars, cfgVars, watchVars, pc, idx, calls, ctxDone, wg, listener,
                 mgr, trigger, conn>>

(* ------------------------ listener goroutine --------------------------- *)
\* line 221: ListenAndServe binds the port and serves
ListenerBind ==
  /\ Alive
  /\ listener = "starting"
  /\ listener' = "serving"
  /\ UNCHANGED <<sideVars, envVars, cfgVars, watchVars, pc, idx, calls, ctxDone, wg, mgr,
                 sigChan, sigSent, trigger, conn>>

\* lines 219-224: ListenAndServe fails to bind: cancel() and wg.Done()
ListenerError ==
  /\ Alive
  /\ listener = "starting"
  /\ listener' = "failed"
  /\ ctxDone' = TRUE
  /\ wg' = wg - 1
  /\ UNCHANGED <<sideVars, envVars, cfgVars, watchVars, pc, idx, calls, mgr, sigChan, sigSent,
                 trigger, conn>>

\* lines 219-225: ListenAndServe returns nil after Shutdown: wg.Done()
ListenerReturn ==
  /\ Alive
  /\ listener = "closed"
  /\ listener' = "exited"
  /\ wg' = wg - 1
  /\ UNCHANGED <<sideVars, envVars, cfgVars, watchVars, pc, idx, calls, ctxDone, mgr, sigChan,
                 sigSent, trigger, conn>>

(* ------------------------- manager goroutine --------------------------- *)
\* lines 193-196: mgr.Start(cmd.Context()) returns an error: cancel()
MgrError ==
  /\ Alive
  /\ mgr = "running"
  /\ mgr' = "failed"
  /\ ctxDone' = TRUE
  /\ UNCHANGED <<sideVars, envVars, cfgVars, watchVars, pc, idx, calls, wg, listener, sigChan,
                 sigSent, trigger, conn>>

(* ------------------------------ watchers ------------------------------- *)
\* the watcher task starts its informer: list, then watch
WatcherRun(ns) ==
  /\ Alive
  /\ wstate[ns] = "Created"
  /\ wstate' = [wstate EXCEPT ![ns] = "Syncing"]
  /\ UNCHANGED <<sideVars, envVars, cfgVars, informers, hasSynced, store, created, pc, idx,
                 calls, ctxDone, wg, listener, mgr, sigChan, sigSent, trigger,
                 conn>>

\* the initial bulk listing fills the cache; HasSynced becomes true
WatcherList(ns) ==
  /\ Alive
  /\ wstate[ns] = "Syncing"
  /\ ~hasSynced[ns]
  /\ store' = [store EXCEPT ![ns] = clusterDeployments[ns]]
  /\ hasSynced' = [hasSynced EXCEPT ![ns] = TRUE]
  /\ UNCHANGED <<sideVars, envVars, cfgVars, informers, wstate, created, pc, idx, calls, ctxDone,
                 wg, listener, mgr, sigChan, sigSent, trigger, conn>>

\* WaitForCacheSync succeeds: the watcher is Ready and enters the registry
WatcherSynced(ns) ==
  /\ Alive
  /\ wstate[ns] = "Syncing"
  /\ hasSynced[ns]
  /\ wstate' = [wstate EXCEPT ![ns] = "Ready"]
  /\ informers' = informers \cup {ns}
  /\ UNCHANGED <<sideVars, envVars, cfgVars, hasSynced, store, created, pc, idx, calls, ctxDone,
                 wg, listener, mgr, sigChan, sigSent, trigger, conn>>

\* a timed-out watcher that is registered all the same
SyncTimeout_Registered(ns) ==
  /\ Alive
  /\ wstate[ns] = "Syncing"
  /\ wstate' = [wstate EXCEPT ![ns] = "Failed"]
  /\ informers' = informers \cup {ns}
  /\ UNCHANGED <<sideVars, envVars, cfgVars, hasSynced, store, created, pc, idx, calls, ctxDone,
                 wg, listener, mgr, sigChan, sigSent, trigger, conn>>

\* a timeout that also strikes a watcher that is Ready
SyncTimeout_AlsoReady(ns) ==
  /\ Alive
  /\ wstate[ns] \in {"Syncing", "Ready"}
  /\ wstate' = [wstate EXCEPT ![ns] = "Failed"]
  /\ UNCHANGED <<sideVars, envVars, cfgVars, informers, hasSynced, store, created, pc, idx,
                 calls, ctxDone, wg, listener, mgr, sigChan, sigSent, trigger,
                 conn>>

\* the bounded sync wait elapses first: the watcher is marked Failed and is
\* not inserted into the registry
SyncTimeout(ns) ==
  /\ Alive
  /\ wstate[ns] = "Syncing"
  /\ wstate' = [wstate EXCEPT ![ns] = "Failed"]
  /\ UNCHANGED <<sideVars, envVars, cfgVars, informers, hasSynced, store, created, pc, idx,
                 calls, ctxDone, wg, listener, mgr, sigChan, sigSent, trigger,
                 conn>>

\* a watcher that returns at once on cancellation, without ShuttingDown
WatcherShutdown_Skip(ns) ==
  /\ Alive
  /\ wstate[ns] = "Ready"
  /\ ctxDone
  /\ wstate' = [wstate EXCEPT ![ns] = "Stopped"]
  /\ UNCHANGED <<sideVars, envVars, cfgVars, informers, hasSynced, store, created, pc, idx,
                 calls, ctxDone, wg, listener, mgr, sigChan, sigSent, trigger,
                 conn>>

\* <-ctx.Done(): a Ready watcher observes the cancellation
WatcherShutdown(ns) ==
  /\ Alive
  /\ wstate[ns] = "Ready"
  /\ ctxDone
  /\ wstate' = [wstate EXCEPT ![ns] = "ShuttingDown"]
  /\ UNCHANGED <<sideVars, envVars, cfgVars, informers, hasSynced, store, created, pc, idx,
                 calls, ctxDone, wg, listener, mgr, sigChan, sigSent, trigger,
                 conn>>

\* a watcher that removes itself from the registry when it returns
WatcherStopped_Unregisters(ns) ==
  /\ Alive
  /\ wstate[ns] = "ShuttingDown"
  /\ wstate' = [wstate EXCEPT ![ns] = "Stopped"]
  /\ informers' = informers \ {ns}
  /\ UNCHANGED <<sideVars, envVars, cfgVars, hasSynced, store, created, pc, idx, calls, ctxDone,
                 wg, listener, mgr, sigChan, sigSent, trigger, conn>>

\* the watcher task returns
WatcherStopped(ns) ==
  /\ Alive
  /\ wstate[ns] = "ShuttingDown"
  /\ wstate' = [wstate EXCEPT ![ns] = "Stopped"]
  /\ UNCHANGED <<sideVars, envVars, cfgVars, informers, hasSynced, store, created, pc, idx,
                 calls, ctxDone, wg, listener, mgr, sigChan, sigSent, trigger,
                 conn>>


(* ---------------------------- watch events ---------------------------- *)
\* the watch of a namespace is open: its watcher has listed and still runs
WatchOpen(ns) == wstate[ns] \in {"Syncing", "Ready"} /\ hasSynced[ns]

\* all watch events emitted so far
EmittedCount(ns) == Len(emitted[ns])
TotalEmitted ==
  LET RECURSIVE Sum(_)
      Sum(S) == IF S = {} THEN 0
                ELSE LET n == CHOOSE n \in S : TRUE
                     IN EmittedCount(n) + Sum(S \ {n})
  IN Sum(Namespaces)

\* a Deployment is created in a namespace whose watch is open: ADDED
ClusterCreate(ns, name) ==
  /\ Alive
  /\ WatchOpen(ns)
  /\ TotalEmitted < MaxEvents
  /\ name \notin clusterDeployments[ns]
  /\ clusterDeployments' = [clusterDeployments EXCEPT ![ns] = @ \cup {name}]
  /\ emitted' = [emitted EXCEPT
                   ![ns] = Append(@, [type |-> "ADDED", name |-> name])]
  /\ UNCHANGED <<sideVars, namespacesToWatch, kubeConfigured, clusterNamespaces,
                 watchVars, pc, idx, calls, ctxDone, wg, listener, mgr,
                 sigChan, sigSent, trigger, conn, applied, workqueue,
                 reconcile>>

\* a Deployment is changed (replicas, status) and keeps its name: MODIFIED
ClusterUpdate(ns, name) ==
  /\ Alive
  /\ WatchOpen(ns)
  /\ TotalEmitted < MaxEvents
  /\ name \in clusterDeployments[ns]
  /\ emitted' = [emitted EXCEPT
                   ![ns] = Append(@, [type |-> "MODIFIED", name |-> name])]
  /\ UNCHANGED <<sideVars, cfgVars, watchVars, pc, idx, calls, ctxDone, wg, listener,
                 mgr, sigChan, sigSent, trigger, conn, applied, workqueue,
                 reconcile>>

\* a Deployment is deleted: DELETED
ClusterDelete(ns, name) ==
  /\ Alive
  /\ WatchOpen(ns)
  /\ TotalEmitted < MaxEvents
  /\ name \in clusterDeployments[ns]
  /\ clusterDeployments' = [clusterDeployments EXCEPT ![ns] = @ \ {name}]
  /\ emitted' = [emitted EXCEPT
                   ![ns] = Append(@, [type |-> "DELETED", name |-> name])]
  /\ UNCHANGED <<sideVars, namespacesToWatch, kubeConfigured, clusterNamespaces,
                 watchVars, pc, idx, calls, ctxDone, wg, listener, mgr,
                 sigChan, sigSent, trigger, conn, applied, workqueue,
                 reconcile>>

\* the cache after one event: add and update store the object under its
\* name, delete removes it
ApplyDelta(names, event) ==
  IF event.type = "DELETED" THEN names \ {event.name}
  ELSE names \cup {event.name}

\* the watcher applying its newest pending event first
ApplyEvent_NewestFirst(ns) ==
  /\ Alive
  /\ WatchOpen(ns)
  /\ applied[ns] < Len(emitted[ns])
  /\ store' = [store EXCEPT
                 ![ns] = ApplyDelta(@, emitted[ns][Len(emitted[ns])])]
  /\ applied' = [applied EXCEPT ![ns] = @ + 1]
  /\ UNCHANGED <<sideVars, cfgVars, informers, wstate, hasSynced, created, pc, idx,
                 calls, ctxDone, wg, listener, mgr, sigChan, sigSent, trigger,
                 conn, emitted, workqueue, reconcile>>

\* the watcher replacing an updated object in two visible steps: the old
\* object is removed by this one and put back only by the next event
ApplyEvent_UpdateRemoves(ns) ==
  /\ Alive
  /\ WatchOpen(ns)
  /\ applied[ns] < Len(emitted[ns])
  /\ LET event == emitted[ns][applied[ns] + 1] IN
       store' = [store EXCEPT
                   ![ns] = IF event.type = "MODIFIED" THEN @ \ {event.name}
                           ELSE ApplyDelta(@, event)]
  /\ applied' = [applied EXCEPT ![ns] = @ + 1]
  /\ UNCHANGED <<sideVars, cfgVars, informers, wstate, hasSynced, created, pc, idx,
                 calls, ctxDone, wg, listener, mgr, sigChan, sigSent, trigger,
                 conn, emitted, workqueue, reconcile>>

\* the watcher forgetting a pending event without applying it
ApplyEvent_Drops(ns) ==
  /\ Alive
  /\ WatchOpen(ns)
  /\ applied[ns] < Len(emitted[ns])
  /\ applied' = [applied EXCEPT ![ns] = @ + 1]
  /\ UNCHANGED <<sideVars, cfgVars, watchVars, pc, idx, calls, ctxDone, wg, listener,
                 mgr, sigChan, sigSent, trigger, conn, emitted, workqueue,
                 reconcile>>

\* the watcher emptying its cache to rebuild it, the refill left to later
\* steps and the emptied cache visible meanwhile
ApplyEvent_Rebuilds(ns) ==
  /\ Alive
  /\ WatchOpen(ns)
  /\ applied[ns] < Len(emitted[ns])
  /\ store' = [store EXCEPT ![ns] = {}]
  /\ applied' = [applied EXCEPT ![ns] = @ + 1]
  /\ UNCHANGED <<sideVars, cfgVars, informers, wstate, hasSynced, created, pc, idx,
                 calls, ctxDone, wg, listener, mgr, sigChan, sigSent, trigger,
                 conn, emitted, workqueue, reconcile>>

\* the caches a running handleGetDeployments has lived through, kept with it
Observed(sc, caches) ==
  IF sc.state = "running" THEN [sc EXCEPT !.seen = @ \cup {caches}] ELSE sc

\* the watcher's event loop takes the oldest pending event and applies it to
\* its cache in one step
ApplyEvent(ns) ==
  /\ Alive
  /\ WatchOpen(ns)
  /\ applied[ns] < Len(emitted[ns])
  /\ store' = [store EXCEPT
                 ![ns] = ApplyDelta(@, emitted[ns][applied[ns] + 1])]
  /\ applied' = [applied EXCEPT ![ns] = @ + 1]
  /\ scan' = Observed(scan, store')
  /\ UNCHANGED <<replicas, sources, appConfig, cfg, cfgVars, informers, wstate,
                 hasSynced, created, pc, idx, calls, ctxDone, wg, listener,
                 mgr, sigChan, sigSent, trigger, conn, emitted, workqueue,
                 reconcile>>

(* ------------------------ Deployment controller ------------------------ *)
\* the requests a Deployment event can turn into
ReconcileRequests == [namespace : Namespaces, name : Names]

\* the reconciler's Namespaces field: the configured namespaces handed to
\* AddDeploymentControllerWithNameAndNamespaces
r_Namespaces == namespacesToWatch

\* the membership test asking the registry of watchers
isNamespaceWatched_Registered(namespace) == HasInformer(namespace)

\* the membership test answering yes for every namespace
isNamespaceWatched_Always(namespace) == TRUE

isNamespaceWatched(namespace) ==
  \E i \in 1..Len(r_Namespaces) : r_Namespaces[i] = namespace

\* the event filter of the controller
namespacePredicate(namespace) == isNamespaceWatched(namespace)

\* Reconcile: what it did and returned; getErr is a failure of the read other
\* than not-found
Reconcile(req, getErr) ==
  IF ~isNamespaceWatched(req.namespace)
  THEN [read |-> FALSE, found |-> FALSE, err |-> FALSE, requeue |-> FALSE]
  ELSE IF getErr
  THEN [read |-> TRUE, found |-> FALSE, err |-> TRUE, requeue |-> FALSE]
  ELSE [read |-> TRUE,
        found |-> req.name \in clusterDeployments[req.namespace],
        err |-> FALSE, requeue |-> FALSE]

\* an event about a Deployment reaches the running controller: the filter
\* drops it or its request is queued
DeploymentEvent(namespace, name) ==
  /\ Alive
  /\ mgr = "running"
  /\ reconcile.seen < MaxReconciles
  /\ namespace \in clusterNamespaces
  /\ workqueue' = IF namespacePredicate(namespace)
                  THEN workqueue \cup {[namespace |-> namespace, name |-> name]}
                  ELSE workqueue
  /\ reconcile' = [seen |-> reconcile.seen + 1, namespace |-> namespace,
                   name |-> name, passed |-> namespacePredicate(namespace),
                   called |-> FALSE, read |-> FALSE, found |-> FALSE,
                   err |-> FALSE, requeue |-> FALSE]
  /\ UNCHANGED <<sideVars, cfgVars, watchVars, pc, idx, calls, ctxDone, wg, listener,
                 mgr, sigChan, sigSent, trigger, conn, emitted, applied>>

\* a client changes spec.replicas of a Deployment of the cluster; the event
\* reaches the running controller like any other
UpdateDeployment(namespace, name) ==
  /\ Alive
  /\ mgr = "running"
  /\ reconcile.seen < MaxReconciles
  /\ name \in clusterDeployments[namespace]
  /\ replicas' = [replicas EXCEPT ![namespace][name] = IF @ = 1 THEN 3 ELSE 1]
  /\ workqueue' = IF namespacePredicate(namespace)
                  THEN workqueue \cup {[namespace |-> namespace, name |-> name]}
                  ELSE workqueue
  /\ reconcile' = [seen |-> reconcile.seen + 1, namespace |-> namespace,
                   name |-> name, passed |-> namespacePredicate(namespace),
                   called |-> FALSE, read |-> FALSE, found |-> FALSE,
                   err |-> FALSE, requeue |-> FALSE]
  /\ UNCHANGED <<sources, appConfig, cfg, scan, cfgVars, watchVars, pc, idx,
                 calls, ctxDone, wg, listener, mgr, sigChan, sigSent, trigger,
                 conn, emitted, applied>>

\* a Reconcile that sets spec.replicas of the Deployment it read back to 1
ReconcileRequest_Remediates ==
  /\ Alive
  /\ mgr = "running"
  /\ \E req \in workqueue, getErr \in BOOLEAN :
       LET res == Reconcile(req, getErr) IN
         /\ workqueue' = IF res.err \/ res.requeue THEN workqueue
                         ELSE workqueue \ {req}
         /\ reconcile' = [seen |-> reconcile.seen, namespace |-> req.namespace,
                          name |-> req.name, passed |-> TRUE, called |-> TRUE,
                          read |-> res.read, found |-> res.found,
                          err |-> res.err, requeue |-> res.requeue]
         /\ replicas' = IF res.found
                        THEN [replicas EXCEPT ![req.namespace][req.name] = 1]
                        ELSE replicas
  /\ UNCHANGED <<sources, appConfig, cfg, scan, cfgVars, watchVars, pc, idx,
                 calls, ctxDone, wg, listener, mgr, sigChan, sigSent, trigger,
                 conn, emitted, applied>>

\* the controller's single worker takes a request and calls Reconcile, whose
\* only call to the cluster is the read; a request whose Reconcile returned an
\* error is queued again
ReconcileRequest ==
  /\ Alive
  /\ mgr = "running"
  /\ \E req \in workqueue, getErr \in BOOLEAN :
       LET res == Reconcile(req, getErr) IN
         /\ workqueue' = IF res.err \/ res.requeue THEN workqueue
                         ELSE workqueue \ {req}
         /\ reconcile' = [seen |-> reconcile.seen, namespace |-> req.namespace,
                          name |-> req.name, passed |-> TRUE, called |-> TRUE,
                          read |-> res.read, found |-> res.found,
                          err |-> res.err, requeue |-> res.requeue]
  /\ UNCHANGED <<replicas, sources, appConfig, cfg, scan, cfgVars, watchVars,
                 pc, idx, calls, ctxDone, wg, listener, mgr, sigChan, sigSent,
                 trigger, conn, emitted, applied>>

(* ---------------------------- HTTP handlers ---------------------------- *)
\* A request path is held as its segments: "/deployments/a" is
\* <<"deployments", "a">>, "/" is <<"">>, "/deployments/" is
\* <<"deployments", "">>.
Segments == Namespaces \cup {"%61", "%zz"}
Paths ==
  {<<"">>, <<"namespaces">>, <<"deployments">>, <<"unknown">>,
   <<"deployments", "a", "b">>}
  \cup {<<"deployments", s>> : s \in Segments}
\* the requests that are followed through a connection; the handlers are
\* also evaluated on every other path shape, as functions of the request
Requests ==
  {[method |-> "GET", path |-> p] :
     p \in Paths \ {<<"">>, <<"deployments", "%zz">>, <<"deployments", "b">>}}
  \cup {[method |-> "POST", path |-> p] : p \in {<<"deployments">>}}

\* strings.Split(path, "/") of a path that starts with "/"
Split(path) == <<"">> \o path

\* url.QueryUnescape on the segment alphabet: "%61" decodes to "a", "%zz" is
\* an invalid escape, everything else is unchanged
QueryUnescape(s) ==
  CASE s = "%61" -> [err |-> FALSE, val |-> "a"]
    [] s = "%zz" -> [err |-> TRUE, val |-> ""]
    [] OTHER -> [err |-> FALSE, val |-> s]

RECURSIVE SumCounts(_)
SumCounts(S) ==
  IF S = {} THEN 0
  ELSE LET r == CHOOSE r \in S : TRUE IN r.count + SumCounts(S \ {r})

\* the slice a set-valued query hands to its caller, in some fixed order
RECURSIVE SetToSeq(_)
SetToSeq(S) ==
  IF S = {} THEN <<>>
  ELSE LET x == CHOOSE x \in S : TRUE IN <<x>> \o SetToSeq(S \ {x})

\* a value encoding/json cannot serialize (a channel, a function)
Unsupported == [unsupported |-> TRUE]

\* json.Marshal: fails on an unsupported value
jsonMarshal(data) == [err |-> data = Unsupported, jsonData |-> data]

\* writeJSONResponse that sends whatever it was given with the intended status
writeJSONResponse_Propagate(data, statusCode) ==
  [status |-> statusCode, body |-> data]

\* writeJSONResponse: the intended status and the serialized body, or the
\* fixed 500 body when json.Marshal fails
writeJSONResponse(data, statusCode) ==
  IF jsonMarshal(data).err
  THEN [status |-> 500,
        body |-> [error |-> "Internal Server Error",
                  message |-> <<"Failed to serialize response">>]]
  ELSE [status |-> statusCode, body |-> jsonMarshal(data).jsonData]

writeErrorResponse(message, statusCode) ==
  writeJSONResponse([error |-> "Request Error", message |-> message],
                    statusCode)

\* lines 92-103: the loop over availableNamespaces, appending one
\* DeploymentResponse per namespace and adding its length to total
RECURSIVE DeploymentsLoop(_, _, _)
DeploymentsLoop(nsList, responses, total) ==
  IF nsList = <<>>
  THEN [responses |-> responses, total |-> total]
  ELSE LET ns == Head(nsList)
           deployments == GetDeploymentNames(ns)
           resp == [namespace |-> ns,
                    deployments |-> deployments,
                    count |-> Cardinality(deployments)]
       IN DeploymentsLoop(Tail(nsList), Append(responses, resp),
                          total + Cardinality(deployments))

\* the handler leaving out the namespaces that hold no Deployment
handleGetDeployments_SkipEmpty ==
  LET availableNamespaces ==
        SetToSeq({ns \in GetAvailableNamespaces : GetDeploymentNames(ns) # {}})
  IN
  IF Cardinality(GetAvailableNamespaces) = 0
  THEN writeErrorResponse(<<"No namespaces are being watched">>, 404)
  ELSE LET loop == DeploymentsLoop(availableNamespaces, <<>>, 0)
       IN writeJSONResponse([namespaces |-> loop.responses,
                             total_count |-> loop.total], 200)

\* the handler reporting the number of entries as the total
handleGetDeployments_TotalIsEntries ==
  LET availableNamespaces == SetToSeq(GetAvailableNamespaces) IN
  IF Len(availableNamespaces) = 0
  THEN writeErrorResponse(<<"No namespaces are being watched">>, 404)
  ELSE LET loop == DeploymentsLoop(availableNamespaces, <<>>, 0)
       IN writeJSONResponse([namespaces |-> loop.responses,
                             total_count |-> Len(loop.responses)], 200)

\* the handler without the empty-set check
handleGetDeployments_NoEmptyCheck ==
  LET availableNamespaces == SetToSeq(GetAvailableNamespaces)
      loop == DeploymentsLoop(availableNamespaces, <<>>, 0)
  IN writeJSONResponse([namespaces |-> loop.responses,
                        total_count |-> loop.total], 200)

handleGetDeployments ==
  LET availableNamespaces == SetToSeq(GetAvailableNamespaces) IN
  IF Len(availableNamespaces) = 0
  THEN writeErrorResponse(<<"No namespaces are being watched">>, 404)
  ELSE LET loop == DeploymentsLoop(availableNamespaces, <<>>, 0)
       IN writeJSONResponse([namespaces |-> loop.responses,
                             total_count |-> loop.total], 200)

\* the handler without the HasInformer check
handleGetDeploymentsByNamespace_NoHasInformer(path) ==
  LET parts == Split(path) IN
  IF Len(parts) # 3
  THEN writeErrorResponse(
         <<"Invalid path format. Use /deployments/{namespace}">>, 400)
  ELSE LET decoded == QueryUnescape(parts[3]) IN
       IF decoded.err
       THEN writeErrorResponse(<<"Invalid namespace encoding">>, 400)
       ELSE writeJSONResponse(
              [namespace |-> decoded.val,
               deployments |-> GetDeploymentNames(decoded.val),
               count |-> Cardinality(GetDeploymentNames(decoded.val))], 200)

\* the handler taking the first segment after /deployments/ whatever the
\* number of segments
handleGetDeploymentsByNamespace_NoLenCheck(path) ==
  LET parts == Split(path)
      decoded == QueryUnescape(parts[3])
  IN
  IF decoded.err
  THEN writeErrorResponse(<<"Invalid namespace encoding">>, 400)
  ELSE IF ~HasInformer(decoded.val)
  THEN writeErrorResponse(
         <<"Namespace not being watched: ", decoded.val>>, 404)
  ELSE writeJSONResponse(
         [namespace |-> decoded.val,
          deployments |-> GetDeploymentNames(decoded.val),
          count |-> Cardinality(GetDeploymentNames(decoded.val))], 200)

handleGetDeploymentsByNamespace(path) ==
  LET parts == Split(path) IN
  IF Len(parts) # 3
  THEN writeErrorResponse(
         <<"Invalid path format. Use /deployments/{namespace}">>, 400)
  ELSE LET decoded == QueryUnescape(parts[3]) IN
       IF decoded.err
       THEN writeErrorResponse(<<"Invalid namespace encoding">>, 400)
       ELSE IF ~HasInformer(decoded.val)
       THEN writeErrorResponse(
              <<"Namespace not being watched: ", decoded.val>>, 404)
       ELSE writeJSONResponse(
              [namespace |-> decoded.val,
               deployments |-> GetDeploymentNames(decoded.val),
               count |-> Cardinality(GetDeploymentNames(decoded.val))], 200)

\* the handler answering 404 when no namespace is watched, as
\* handleGetDeployments does
handleGetNamespaces_404WhenEmpty ==
  IF Cardinality(GetAvailableNamespaces) = 0
  THEN writeErrorResponse(<<"No namespaces are being watched">>, 404)
  ELSE writeJSONResponse([namespaces |-> GetAvailableNamespaces,
                          count |-> Cardinality(GetAvailableNamespaces)], 200)

handleGetNamespaces ==
  writeJSONResponse([namespaces |-> GetAvailableNamespaces,
                     count |-> Cardinality(GetAvailableNamespaces)], 200)

handleRoot ==
  writeJSONResponse([message |-> "Kubernetes Controller API",
                     endpoints |-> {"/deployments", "/namespaces"}], 200)

\* the not-found handler answering without the error field
handleNotFound_NoErrorField ==
  writeJSONResponse(
    [message |-> <<"The requested endpoint does not exist">>], 404)

handleNotFound ==
  writeJSONResponse([error |-> "Not Found",
                     message |-> <<"The requested endpoint does not exist">>],
                    404)

\* the case conditions of the routing switch, lines 68-74
IsGetDeployments(req) ==
  req.path = <<"deployments">> /\ req.method = "GET"
\* strings.HasPrefix(path, "/deployments/")
IsGetDeploymentsByNamespace(req) ==
  Len(req.path) >= 2 /\ req.path[1] = "deployments" /\ req.method = "GET"
IsGetNamespaces(req) ==
  req.path = <<"namespaces">> /\ req.method = "GET"
IsRoot(req) ==
  req.path = <<"">> /\ req.method = "GET"

\* the routing switch matching on the path alone
CreateHandler_AnyMethod(req) ==
  IF req.path = <<"deployments">> THEN handleGetDeployments
  ELSE IF Len(req.path) >= 2 /\ req.path[1] = "deployments"
  THEN handleGetDeploymentsByNamespace(req.path)
  ELSE IF req.path = <<"namespaces">> THEN handleGetNamespaces
  ELSE IF req.path = <<"">> THEN handleRoot
  ELSE handleNotFound

\* the routing switch of CreateHandler: the first case that matches
CreateHandler(req) ==
  IF IsGetDeployments(req) THEN handleGetDeployments
  ELSE IF IsGetDeploymentsByNamespace(req)
  THEN handleGetDeploymentsByNamespace(req.path)
  ELSE IF IsGetNamespaces(req) THEN handleGetNamespaces
  ELSE IF IsRoot(req) THEN handleRoot
  ELSE handleNotFound

\* the listener accepts a connection carrying one request
RequestArrives(req) ==
  /\ Alive
  /\ listener = "serving"
  /\ conn = NoConn
  /\ conn' = [state |-> "received", req |-> req, resp |-> NoResp]
  /\ UNCHANGED <<sideVars, envVars, cfgVars, watchVars, pc, idx, calls, ctxDone, wg, listener,
                 mgr, sigChan, sigSent, trigger>>

\* a handler that registers the namespace it is asked about
HandleRequest_Registers ==
  /\ Alive
  /\ conn.state = "received"
  /\ conn' = [conn EXCEPT !.state = "responded",
                          !.resp = CreateHandler(conn.req)]
  /\ informers' = IF Len(conn.req.path) = 2 /\ conn.req.path[2] \in Namespaces
                  THEN informers \cup {conn.req.path[2]}
                  ELSE informers
  /\ UNCHANGED <<sideVars, envVars, cfgVars, wstate, hasSynced, store,
                 created, pc, idx, calls, ctxDone, wg, listener, mgr, sigChan,
                 sigSent, trigger>>

\* the request handler runs and writes its response
HandleRequest ==
  /\ Alive
  /\ conn.state = "received"
  /\ conn' = [conn EXCEPT !.state = "responded",
                          !.resp = CreateHandler(conn.req)]
  /\ UNCHANGED <<sideVars, envVars, cfgVars, watchVars, pc, idx, calls, ctxDone, wg, listener,
                 mgr, sigChan, sigSent, trigger>>

\* the response is sent and the connection is closed
ConnClose ==
  /\ Alive
  /\ conn.state = "responded"
  /\ conn' = NoConn
  /\ UNCHANGED <<sideVars, envVars, cfgVars, watchVars, pc, idx, calls, ctxDone, wg, listener,
                 mgr, sigChan, sigSent, trigger>>

(* ------------------------------ Next ----------------------------------- *)
Next ==
  \/ GetServerKubeClient
  \/ LoopCheckNamespace
  \/ StartInformerCall
  \/ StartInformerReturn
  \/ LoopEnd
  \/ NewManager
  \/ StartHTTP
  \/ SelectSignal
  \/ SelectCtxDone
  \/ ServerShutdown
  \/ ServerShutdownReturn
  \/ CancelCtx
  \/ WgWait
  \/ Signal
  \/ ListenerBind
  \/ ListenerError
  \/ ListenerReturn
  \/ MgrError
  \/ \E ns \in Namespaces : WatcherRun(ns)
  \/ \E ns \in Namespaces : WatcherList(ns)
  \/ \E ns \in Namespaces : WatcherSynced(ns)
  \/ \E ns \in Namespaces : SyncTimeout(ns)
  \/ \E ns \in Namespaces : WatcherShutdown(ns)
  \/ \E ns \in Namespaces : WatcherStopped(ns)
  \/ \E req \in Requests : RequestArrives(req)
  \/ HandleRequest
  \/ ConnClose

Spec == Init /\ [][Next]_vars

TypeOK ==
  /\ pc \in {"start", "loop", "start_informer", "sync_wait", "new_manager",
             "http", "select", "shutdown", "draining", "cancel", "wait",
             "done", "exit1"}
  /\ wstate \in [Namespaces -> WatcherStates]
  /\ informers \subseteq Namespaces
  /\ wg \in 0..1
  /\ sigChan \in 0..1


(* ----------------------------- fairness -------------------------------- *)
\* the steps of serverCmd.Run itself
RunStep ==
  \/ GetServerKubeClient \/ LoopCheckNamespace \/ StartInformerCall
  \/ StartInformerReturn \/ LoopEnd \/ NewManager \/ StartHTTP
  \/ SelectSignal \/ SelectCtxDone \/ ServerShutdown \/ ServerShutdownReturn
  \/ CancelCtx \/ WgWait

\* the steps of one watcher task; a sync ends in Ready or in the timeout
WatcherStep(ns) ==
  \/ WatcherRun(ns) \/ WatcherList(ns) \/ WatcherSynced(ns)
  \/ SyncTimeout(ns) \/ WatcherShutdown(ns) \/ WatcherStopped(ns)
  \/ ApplyEvent(ns)

\* the steps of the listener goroutine and of its request handlers
ListenerStep ==
  \/ ListenerBind \/ ListenerError \/ ListenerReturn
  \/ HandleRequest \/ ConnClose

\* every goroutine that can run eventually runs; signals, manager errors and
\* incoming requests are up to the environment
FairSpec ==
  /\ Spec
  /\ WF_vars(RunStep)
  /\ \A ns \in Namespaces : WF_vars(WatcherStep(ns))
  /\ WF_vars(ListenerStep)

(* ------------------- writeJSONResponse called directly ----------------- *)
\* the values and statuses handed to writeJSONResponse, as
\* TestHandlerManager_writeJSONResponse does with a value of its own
ResponseData ==
  {Unsupported,
   [test |-> "data"],
   [message |-> "Kubernetes Controller API"],
   [namespaces |-> {}, count |-> 0],
   [error |-> "Request Error", message |-> <<"Test error message">>]}
StatusCodes == {200, 400, 404, 500}

\* the server without a cluster configuration, its listener serving
InitWrite ==
  /\ namespacesToWatch = <<"a">>
  /\ kubeConfigured = FALSE
  /\ clusterNamespaces = {}
  /\ clusterDeployments = [n \in Namespaces |-> {}]
  /\ pc = "select"
  /\ idx = 1
  /\ informers = {}
  /\ wstate = [n \in Namespaces |-> "None"]
  /\ hasSynced = [n \in Namespaces |-> FALSE]
  /\ store = [n \in Namespaces |-> {}]
  /\ created = [n \in Namespaces |-> 0]
  /\ calls = [n \in Namespaces |-> 0]
  /\ ctxDone = FALSE
  /\ wg = 1
  /\ listener = "serving"
  /\ mgr = "none"
  /\ sigChan = 0
  /\ sigSent = 0
  /\ trigger = "none"
  /\ conn = NoConn
  /\ emitted = [n \in Namespaces |-> <<>>]
  /\ applied = [n \in Namespaces |-> 0]
  /\ workqueue = {}
  /\ reconcile = NoReconcile
  /\ sources = NoSources
  /\ appConfig = "<unloaded>"
  /\ cfg = "<unresolved>"
  /\ scan = NoScan
  /\ replicas = [n \in Namespaces |-> [d \in Names |-> 1]]

\* a request handler that answers through writeJSONResponse(data, statusCode)
WriteJSONResponseCall(data, statusCode) ==
  /\ Alive
  /\ conn.state = "received"
  /\ conn' = [conn EXCEPT !.state = "responded",
                          !.resp = writeJSONResponse(data, statusCode)]
  /\ UNCHANGED <<sideVars, envVars, cfgVars, watchVars, pc, idx, calls, ctxDone, wg, listener,
                 mgr, sigChan, sigSent, trigger>>

NextWrite ==
  \/ \E req \in Requests : RequestArrives(req)
  \/ \E data \in ResponseData, statusCode \in StatusCodes :
       WriteJSONResponseCall(data, statusCode)
  \/ ConnClose

WriteSpec == InitWrite /\ [][NextWrite]_vars

\* a handler that was called returns, and a written response is sent
FairWriteSpec ==
  /\ WriteSpec
  /\ WF_vars(\E data \in ResponseData, statusCode \in StatusCodes :
               WriteJSONResponseCall(data, statusCode))
  /\ WF_vars(ConnClose)

(* ------------------ the server under cluster changes ------------------- *)
\* one configured namespace that exists and holds Deployments
InitEvents ==
  /\ Init
  /\ kubeConfigured
  /\ namespacesToWatch = <<"a">>
  /\ clusterNamespaces = Namespaces
  /\ clusterDeployments = [n \in Namespaces |->
                             IF n = "a" THEN {"x", "y"} ELSE {}]

NextEvents ==
  \/ Next
  \/ \E ns \in Namespaces, name \in Names : ClusterCreate(ns, name)
  \/ \E ns \in Namespaces, name \in Names : ClusterUpdate(ns, name)
  \/ \E ns \in Namespaces, name \in Names : ClusterDelete(ns, name)
  \/ \E ns \in Namespaces : ApplyEvent(ns)

EventSpec == InitEvents /\ [][NextEvents]_vars

\* the same server while no client connects: the HTTP handlers leave every
\* variable but conn unchanged, so the watchers run as they do under EventSpec
NextWatch ==
  \/ GetServerKubeClient
  \/ LoopCheckNamespace
  \/ StartInformerCall
  \/ StartInformerReturn
  \/ LoopEnd
  \/ NewManager
  \/ StartHTTP
  \/ SelectSignal
  \/ SelectCtxDone
  \/ ServerShutdown
  \/ ServerShutdownReturn
  \/ CancelCtx
  \/ WgWait
  \/ Signal
  \/ ListenerBind
  \/ ListenerError
  \/ ListenerReturn
  \/ MgrError
  \/ \E ns \in Namespaces : WatcherRun(ns)
  \/ \E ns \in Namespaces : WatcherList(ns)
  \/ \E ns \in Namespaces : WatcherSynced(ns)
  \/ \E ns \in Namespaces : SyncTimeout(ns)
  \/ \E ns \in Namespaces : WatcherShutdown(ns)
  \/ \E ns \in Namespaces : WatcherStopped(ns)
  \/ \E ns \in Namespaces, name \in Names : ClusterCreate(ns, name)
  \/ \E ns \in Namespaces, name \in Names : ClusterUpdate(ns, name)
  \/ \E ns \in Namespaces, name \in Names : ClusterDelete(ns, name)
  \/ \E ns \in Namespaces : ApplyEvent(ns)

WatchSpec == InitEvents /\ [][NextWatch]_vars

\* the goroutines of Run, of each watcher and of the listener keep running
FairWatchSpec ==
  /\ WatchSpec
  /\ WF_vars(RunStep)
  /\ \A ns \in Namespaces : WF_vars(WatcherStep(ns))
  /\ WF_vars(ListenerStep)

(* ------------------- the server with its controller -------------------- *)
\* one configured namespace, which exists or not; the cluster also has a
\* namespace that is not configured
InitReconcile ==
  /\ Init
  /\ kubeConfigured
  /\ namespacesToWatch = <<"a">>
  /\ clusterNamespaces \in {Namespaces, {"b"}}
  /\ clusterDeployments = [n \in Namespaces |->
                             IF clusterNamespaces = Namespaces
                             THEN {"x", "y"} ELSE {}]

NextReconcile ==
  \/ Next
  \/ \E namespace \in Namespaces, name \in Names :
       DeploymentEvent(namespace, name)
  \/ \E namespace \in Namespaces, name \in Names :
       UpdateDeployment(namespace, name)
  \/ ReconcileRequest

ReconcileSpec == InitReconcile /\ [][NextReconcile]_vars

(* ------------- handleGetDeployments, one read at a time ----------------- *)
\* the orders in which a map's keys can come out
Orders(S) ==
  {order \in [1..Cardinality(S) -> S] :
     \A i, j \in 1..Cardinality(S) : order[i] = order[j] => i = j}

\* the handler starts: it asks for the watched namespaces and answers 404 if
\* there are none
ScanBegin ==
  /\ Alive
  /\ listener = "serving"
  /\ scan.state = "idle"
  /\ IF Cardinality(GetAvailableNamespaces) = 0
     THEN scan' = [NoScan EXCEPT !.state = "done", !.status = 404]
     ELSE \E order \in Orders(GetAvailableNamespaces) :
            scan' = [state |-> "running", status |-> 0, nsList |-> order,
                     pos |-> 1, responses |-> <<>>, total |-> 0,
                     seen |-> {store}]
  /\ UNCHANGED <<replicas, sources, appConfig, cfg, envVars, cfgVars, watchVars, pc,
                 idx, calls, ctxDone, wg, listener, mgr, sigChan, sigSent,
                 trigger, conn>>

\* a loop body that reads the names of the first namespace every time
ScanStep_ReadsFirst ==
  /\ Alive
  /\ scan.state = "running"
  /\ scan.pos <= Len(scan.nsList)
  /\ LET ns == scan.nsList[scan.pos]
         deployments == GetDeploymentNames(scan.nsList[1]) IN
       scan' = [scan EXCEPT
                  !.responses = Append(@, [namespace |-> ns,
                                           deployments |-> deployments,
                                           count |-> Cardinality(deployments)]),
                  !.total = @ + Cardinality(deployments),
                  !.pos = @ + 1,
                  !.seen = @ \cup {store}]
  /\ UNCHANGED <<replicas, sources, appConfig, cfg, envVars, cfgVars, watchVars, pc,
                 idx, calls, ctxDone, wg, listener, mgr, sigChan, sigSent,
                 trigger, conn>>

\* one turn of the loop: the names of the next namespace are read and its
\* entry is appended
ScanStep ==
  /\ Alive
  /\ scan.state = "running"
  /\ scan.pos <= Len(scan.nsList)
  /\ LET ns == scan.nsList[scan.pos]
         deployments == GetDeploymentNames(ns) IN
       scan' = [scan EXCEPT
                  !.responses = Append(@, [namespace |-> ns,
                                           deployments |-> deployments,
                                           count |-> Cardinality(deployments)]),
                  !.total = @ + Cardinality(deployments),
                  !.pos = @ + 1,
                  !.seen = @ \cup {store}]
  /\ UNCHANGED <<replicas, sources, appConfig, cfg, envVars, cfgVars, watchVars, pc,
                 idx, calls, ctxDone, wg, listener, mgr, sigChan, sigSent,
                 trigger, conn>>

\* the loop is over: the gathered entries are written with status 200
ScanEnd ==
  /\ Alive
  /\ scan.state = "running"
  /\ scan.pos > Len(scan.nsList)
  /\ scan' = [scan EXCEPT !.state = "done", !.status = 200,
                          !.seen = @ \cup {store}]
  /\ UNCHANGED <<replicas, sources, appConfig, cfg, envVars, cfgVars, watchVars, pc,
                 idx, calls, ctxDone, wg, listener, mgr, sigChan, sigSent,
                 trigger, conn>>

\* the client has its answer; the next request can come
ScanClose ==
  /\ scan.state = "done"
  /\ scan' = NoScan
  /\ UNCHANGED <<replicas, sources, appConfig, cfg, envVars, cfgVars, watchVars, pc,
                 idx, calls, ctxDone, wg, listener, mgr, sigChan, sigSent,
                 trigger, conn>>

\* the server in its steady state: both namespaces watched and Ready, the
\* listener serving, Run blocked in its select
InitScan ==
  /\ namespacesToWatch = <<"a", "b">>
  /\ kubeConfigured = TRUE
  /\ clusterNamespaces = Namespaces
  /\ clusterDeployments \in {[n \in Namespaces |-> IF n = "a" THEN {"x"} ELSE {}],
                             [n \in Namespaces |-> {}]}
  /\ pc = "select"
  /\ idx = 3
  /\ informers \in {Namespaces, {}}
  /\ wstate = [n \in Namespaces |-> IF n \in informers THEN "Ready" ELSE "Failed"]
  /\ hasSynced = [n \in Namespaces |-> n \in informers]
  /\ store = [n \in Namespaces |->
                IF n \in informers THEN clusterDeployments[n] ELSE {}]
  /\ created = [n \in Namespaces |-> 1]
  /\ calls = [n \in Namespaces |-> 1]
  /\ ctxDone = FALSE
  /\ wg = 1
  /\ listener = "serving"
  /\ mgr = "running"
  /\ sigChan = 0
  /\ sigSent = 0
  /\ trigger = "none"
  /\ conn = NoConn
  /\ emitted = [n \in Namespaces |-> <<>>]
  /\ applied = [n \in Namespaces |-> 0]
  /\ workqueue = {}
  /\ reconcile = NoReconcile
  /\ sources = NoSources
  /\ appConfig = "<unloaded>"
  /\ cfg = "<unresolved>"
  /\ scan = NoScan
  /\ replicas = [n \in Namespaces |-> [d \in Names |-> 1]]

NextScan ==
  \/ \E ns \in Namespaces, name \in Names : ClusterCreate(ns, name)
  \/ \E ns \in Namespaces, name \in Names : ClusterUpdate(ns, name)
  \/ \E ns \in Namespaces, name \in Names : ClusterDelete(ns, name)
  \/ \E ns \in Namespaces : ApplyEvent(ns)
  \/ ScanBegin
  \/ ScanStep
  \/ ScanEnd
  \/ ScanClose

ScanSpec == InitScan /\ [][NextScan]_vars

(* --------------------------- configuration ----------------------------- *)
Unset == "<unset>"

StringSettings ==
  {"PORT", "METRIC_PORT", "LOGGING_LEVEL", "KUBECONFIG", "NAMESPACE",
   "LEADER_ELECTION_NAMESPACE"}
BoolSettings == {"IN_CLUSTER", "ENABLE_LEADER_ELECTION"}
Settings == StringSettings \cup BoolSettings

\* what the three sources can hold for one setting: nothing, an empty string
\* or a value of their own; a boolean setting holds true or false
SourceSets ==
  {[setting |-> name, cli |-> c, env |-> e, file |-> f, fileOk |-> ok] :
     name \in StringSettings, c \in {Unset, "", "cli"},
     e \in {Unset, "", "env"}, f \in {Unset, "", "file"}, ok \in BOOLEAN}
  \cup
  {[setting |-> name, cli |-> c, env |-> e, file |-> f, fileOk |-> ok] :
     name \in BoolSettings, c \in {Unset, "true", "false"},
     e \in {Unset, "true", "false"}, f \in {Unset, "true", "false"},
     ok \in BOOLEAN}

\* setDefaults: the built-in value of each setting
Default(setting) ==
  CASE setting = "PORT" -> "8080"
    [] setting = "METRIC_PORT" -> "8081"
    [] setting = "LOGGING_LEVEL" -> "info"
    [] setting = "KUBECONFIG" -> "~/.kube/config"
    [] setting = "NAMESPACE" -> "default"
    [] setting = "LEADER_ELECTION_NAMESPACE" -> "default"
    [] setting = "IN_CLUSTER" -> "false"
    [] setting = "ENABLE_LEADER_ELECTION" -> "true"

\* the zero value of a Config field
Zero(setting) == IF setting \in BoolSettings THEN "false" ELSE ""

\* viper: a bound environment variable that is set and not empty, else the
\* key of the .env file
viperIsSet(s) == s.env \notin {Unset, ""} \/ s.file # Unset
viperGet(s) ==
  IF s.env \notin {Unset, ""} THEN s.env
  ELSE IF s.file # Unset THEN s.file
  ELSE Zero(s.setting)

\* LoadConfig followed by loadConfiguration's assignment: a .env file that
\* cannot be read is an error and leaves appConfig at its zero value
LoadConfig(s) ==
  IF ~s.fileOk THEN Zero(s.setting)
  ELSE IF s.setting = "IN_CLUSTER" THEN viperGet(s)
  ELSE IF s.setting = "ENABLE_LEADER_ELECTION"
  THEN IF viperIsSet(s) THEN viperGet(s) ELSE Default(s.setting)
  ELSE IF viperGet(s) = "" THEN Default(s.setting) ELSE viperGet(s)

\* ExpandTilde: a leading ~/ becomes the home directory
ExpandTilde(path) ==
  IF path = "~/.kube/config" THEN "/home/user/.kube/config" ELSE path

\* the flag variable as cobra leaves it: its default when the flag is absent
FlagValue(s) ==
  IF s.cli # Unset THEN s.cli
  ELSE IF s.setting = "IN_CLUSTER" THEN "false"
  ELSE IF s.setting = "ENABLE_LEADER_ELECTION" THEN "true"
  ELSE ""

\* Run's overrides of the loaded configuration by the flags
ServerSetting(s, loaded) ==
  CASE s.setting \in {"PORT", "METRIC_PORT", "LOGGING_LEVEL",
                      "LEADER_ELECTION_NAMESPACE"} ->
         IF FlagValue(s) # "" THEN FlagValue(s) ELSE loaded
    [] s.setting = "NAMESPACE" ->
         IF FlagValue(s) # "" THEN FlagValue(s)
         ELSE IF loaded # "" THEN loaded
         ELSE "default"
    [] s.setting = "KUBECONFIG" ->
         ExpandTilde(IF FlagValue(s) = "" THEN loaded ELSE FlagValue(s))
    [] s.setting = "IN_CLUSTER" ->
         IF FlagValue(s) = "false" THEN loaded ELSE FlagValue(s)
    [] s.setting = "ENABLE_LEADER_ELECTION" ->
         IF s.cli # Unset THEN FlagValue(s) ELSE loaded

\* PersistentPreRun loads the configuration into appConfig
loadConfiguration ==
  /\ sources.setting # "none"
  /\ appConfig = "<unloaded>"
  /\ appConfig' = LoadConfig(sources)
  /\ UNCHANGED <<replicas, sources, cfg, scan, envVars, cfgVars, watchVars, pc, idx,
                 calls, ctxDone, wg, listener, mgr, sigChan, sigSent, trigger,
                 conn>>

\* Run applies the flags on top of appConfig
RunOverrides ==
  /\ sources.setting # "none"
  /\ appConfig # "<unloaded>"
  /\ cfg = "<unresolved>"
  /\ cfg' = ServerSetting(sources, appConfig)
  /\ UNCHANGED <<replicas, sources, appConfig, scan, envVars, cfgVars, watchVars, pc,
                 idx, calls, ctxDone, wg, listener, mgr, sigChan, sigSent,
                 trigger, conn>>

\* the process at its start, with one setting given by any of its sources
InitConfig ==
  /\ sources \in SourceSets
  /\ appConfig = "<unloaded>"
  /\ cfg = "<unresolved>"
  /\ scan = NoScan
  /\ replicas = [n \in Namespaces |-> [d \in Names |-> 1]]
  /\ namespacesToWatch = <<"a">>
  /\ kubeConfigured = FALSE
  /\ clusterNamespaces = {}
  /\ clusterDeployments = [n \in Namespaces |-> {}]
  /\ pc = "start"
  /\ idx = 1
  /\ informers = {}
  /\ wstate = [n \in Namespaces |-> "None"]
  /\ hasSynced = [n \in Namespaces |-> FALSE]
  /\ store = [n \in Namespaces |-> {}]
  /\ created = [n \in Namespaces |-> 0]
  /\ calls = [n \in Namespaces |-> 0]
  /\ ctxDone = FALSE
  /\ wg = 0
  /\ listener = "none"
  /\ mgr = "none"
  /\ sigChan = 0
  /\ sigSent = 0
  /\ trigger = "none"
  /\ conn = NoConn
  /\ emitted = [n \in Namespaces |-> <<>>]
  /\ applied = [n \in Namespaces |-> 0]
  /\ workqueue = {}
  /\ reconcile = NoReconcile

NextConfig == loadConfiguration \/ RunOverrides

ConfigSpec == InitConfig /\ [][NextConfig]_vars

(* ------------------------------ claims --------------------------------- *)
ConfiguredSet == Range(namespacesToWatch)

C5_NamesOnlyWhenReady ==
  \A n \in Namespaces :
    /\ GetDeploymentNames(n) # {} => wstate[n] = "Ready" /\ hasSynced[n]
    /\ wstate[n] # "Ready" => GetDeploymentNames(n) = {}
    /\ wstate[n] = "Ready" => GetDeploymentNames(n) = store[n]

\* a watcher holds names in its cache without being Ready, and the query
\* returns nothing for it
C5_Witness ==
  \E n \in Namespaces :
    /\ wstate[n] \in {"Syncing", "Failed"}
    /\ store[n] # {}
    /\ GetDeploymentNames(n) = {}

C7_TimeoutIsNonFatal ==
  [][/\ \A n \in Namespaces :
          /\ wstate[n] = "Failed" => wstate'[n] = "Failed"
          /\ wstate'[n] = "Failed"
               => n \notin informers' /\ n \notin GetAvailableNamespaces'
     /\ (pc = "sync_wait" /\ wstate[namespacesToWatch[idx]] = "Failed"
         /\ pc' # pc)
          => pc' = "loop" /\ idx' = idx + 1]_vars

\* the listener serves after one watcher failed its sync and a later one
\* became Ready
C7_Witness ==
  /\ listener = "serving"
  /\ Len(namespacesToWatch) = 2
  /\ wstate[namespacesToWatch[1]] = "Failed"
  /\ wstate[namespacesToWatch[2]] = "Ready"

\* C8: for a namespace outside the configured set GetDeploymentNames is empty
\* and GET /deployments/{namespace} answers 404, whatever Deployments the
\* cluster holds in it.
C8_Isolation ==
  \A n \in Namespaces \ ConfiguredSet :
    /\ GetDeploymentNames(n) = {}
    /\ CreateHandler([method |-> "GET",
                      path |-> <<"deployments", n>>]).status = 404
    /\ (/\ conn.state = "responded"
        /\ conn.req.method = "GET"
        /\ Len(conn.req.path) = 2
        /\ conn.req.path[1] = "deployments"
        /\ ~QueryUnescape(conn.req.path[2]).err
        /\ QueryUnescape(conn.req.path[2]).val = n)
         => conn.resp.status = 404

\* a request for an unconfigured namespace that exists and holds Deployments
\* was answered 404
C8_Witness ==
  \E n \in Namespaces \ ConfiguredSet :
    /\ n \in clusterNamespaces
    /\ clusterDeployments[n] # {}
    /\ conn.state = "responded"
    /\ conn.req = [method |-> "GET", path |-> <<"deployments", n>>]
    /\ conn.resp.status = 404

\* background tasks that were started and have not reported completion
RunningWatchers ==
  {n \in Namespaces :
     wstate[n] \in {"Created", "Syncing", "Ready", "ShuttingDown"}}
ListenerRunning == listener \in {"starting", "serving", "closed"}
ManagerRunning == mgr = "running"

\* C9 as stated: after a shutdown started by a signal while the listener and
\* at least two watchers were running, when the exit line has been logged the
\* listener has stopped, the context is cancelled and every watcher task has
\* completed.
C9_ShutdownOrder ==
  (/\ trigger = "signal"
   /\ pc = "done"
   /\ listener = "exited"
   /\ Cardinality(informers) >= 2)
    => ctxDone /\ RunningWatchers = {}

\* C10 as stated: once the final wait is passed no started task (listener,
\* watcher, manager) is still running.
C10_AllTasksTracked ==
  pc = "done"
    => ~ListenerRunning /\ ~ManagerRunning /\ RunningWatchers = {}

\* C11 as stated: once the shared context is cancelled, every watcher and the
\* controller manager eventually stop, unless the process has exited first.
\* mgr.Start is given cmd.Context(), not the shared context, so nothing stops
\* the manager goroutine while the process lives.
C11_CancelStopsAll ==
  ctxDone ~> (~Alive \/ (RunningWatchers = {} /\ ~ManagerRunning))

\* C12: the shutdown sequence (server.Shutdown, cancel, wg.Wait) starts only
\* from the select, on a signal or on the shared context cancelled by a failed
\* listener or manager; it starts once, its steps run in order, and no later
\* signal or error moves Run back.
C12_ShutdownOnce ==
  [][/\ trigger' # trigger
          => trigger = "none" /\ pc = "select" /\ pc' = "shutdown"
     /\ (pc' = "shutdown" /\ pc # "shutdown")
          => /\ pc = "select"
             /\ \/ trigger' = "signal" /\ sigChan' = sigChan - 1
                \/ /\ trigger' = "ctx"
                   /\ ctxDone
                   /\ listener = "failed" \/ mgr = "failed"
     /\ (pc = "shutdown" /\ pc' # pc) => pc' = "draining"
     /\ (pc = "draining" /\ pc' # pc) => pc' = "cancel"
     /\ (pc = "cancel" /\ pc' # pc) => pc' = "wait" /\ ctxDone'
     /\ (pc = "wait" /\ pc' # pc) => pc' = "done"
     /\ pc = "done" => pc' = "done"]_vars

\* Run has finished a shutdown started by a signal although the manager
\* failed as well and a second signal arrived after the shutdown began
C12_Witness ==
  /\ pc = "done"
  /\ trigger = "signal"
  /\ mgr = "failed"
  /\ sigSent >= 2
  /\ sigChan = 1

\* C13 as stated, for the listener: a listener that could not bind its port
\* ends the process with a non-zero exit status, so Run never returns
\* normally after it.
C13_BindFailureIsFatal ==
  listener = "failed" => pc # "done"

\* every method and path shape a client can send, for the statements about
\* the handlers as functions of the request
AllPaths ==
  Paths \cup {<<"deployments", "">>, <<"deployments", "a", "">>,
              <<"namespaces", "a">>, <<"", "deployments">>}
AllRequests ==
  {[method |-> m, path |-> p] : m \in {"GET", "POST"}, p \in AllPaths}

\* the body of a GET /deployments answer agrees with itself
SelfConsistent(body) ==
  /\ \A i, j \in 1..Len(body.namespaces) :
       body.namespaces[i].namespace = body.namespaces[j].namespace => i = j
  /\ \A i \in 1..Len(body.namespaces) :
       body.namespaces[i].count = Cardinality(body.namespaces[i].deployments)
  /\ body.total_count = SumCounts(Range(body.namespaces))

\* C14: a 200 answer of GET /deployments holds exactly one entry for each
\* namespace of GetAvailableNamespaces, every entry's count is the number of
\* its names, and total_count is the sum of the entries' counts.
C14_AggregateSelfConsistent ==
  /\ handleGetDeployments.status = 200
       => /\ SelfConsistent(handleGetDeployments.body)
          /\ {e.namespace : e \in Range(handleGetDeployments.body.namespaces)}
               = GetAvailableNamespaces
          /\ Len(handleGetDeployments.body.namespaces)
               = Cardinality(GetAvailableNamespaces)
  /\ (/\ conn.state = "responded"
      /\ conn.req = [method |-> "GET", path |-> <<"deployments">>]
      /\ conn.resp.status = 200)
       => SelfConsistent(conn.resp.body)

\* GET /deployments was answered 200 for two watched namespaces, one holding
\* Deployments and one holding none
C14_Witness ==
  /\ conn.state = "responded"
  /\ conn.req = [method |-> "GET", path |-> <<"deployments">>]
  /\ conn.resp.status = 200
  /\ Len(conn.resp.body.namespaces) = 2
  /\ \E i, j \in 1..2 :
       /\ conn.resp.body.namespaces[i].count = 0
       /\ conn.resp.body.namespaces[j].count = 2
  /\ conn.resp.body.total_count = 2

\* the answer of GET /deployments/{ns}
ByNamespace(ns) ==
  CreateHandler([method |-> "GET", path |-> <<"deployments", ns>>])

\* C15: whenever some namespace is watched, total_count of GET /deployments
\* is the sum over the watched namespaces of the count of
\* GET /deployments/{ns}, each of which answers 200.
C15_AggregationLaw ==
  GetAvailableNamespaces # {}
    => /\ handleGetDeployments.status = 200
       /\ \A ns \in GetAvailableNamespaces : ByNamespace(ns).status = 200
       /\ handleGetDeployments.body.total_count
            = SumCounts({[namespace |-> ns,
                          count |-> ByNamespace(ns).body.count] :
                           ns \in GetAvailableNamespaces})

\* two namespaces are watched and hold four Deployments in all
C15_Witness ==
  /\ GetAvailableNamespaces = {"a", "b"}
  /\ handleGetDeployments.status = 200
  /\ handleGetDeployments.body.total_count = 4
  /\ ByNamespace("a").body.count = 2

\* the message holds the given text
Contains(message, text) == \E i \in 1..Len(message) : message[i] = text

\* C16: with no watched namespace GET /deployments answers 404 with the
\* message "No namespaces are being watched", and a 200 answer never holds an
\* empty namespace list.
C16_EmptySetIs404 ==
  /\ GetAvailableNamespaces = {}
       => /\ handleGetDeployments.status = 404
          /\ Contains(handleGetDeployments.body.message,
                      "No namespaces are being watched")
  /\ handleGetDeployments.status = 200
       => handleGetDeployments.body.namespaces # <<>>
  /\ (/\ conn.state = "responded"
      /\ conn.req = [method |-> "GET", path |-> <<"deployments">>])
       => \/ /\ conn.resp.status = 200
             /\ conn.resp.body.namespaces # <<>>
          \/ /\ conn.resp.status = 404
             /\ Contains(conn.resp.body.message,
                         "No namespaces are being watched")

\* GET /deployments was answered 404 by a server whose only watcher failed
\* its sync
C16_Witness ==
  /\ conn.state = "responded"
  /\ conn.req = [method |-> "GET", path |-> <<"deployments">>]
  /\ conn.resp.status = 404
  /\ Contains(conn.resp.body.message, "No namespaces are being watched")
  /\ \E n \in Namespaces : wstate[n] = "Failed"
  /\ GetAvailableNamespaces = {}

\* the paths under /deployments/, and their shape
UnderDeployments == {p \in AllPaths : Len(p) >= 2 /\ p[1] = "deployments"}
WrongSegmentCount(p) == Len(p) # 2
IsNotWatched404(resp) ==
  resp.status = 404 /\ Contains(resp.body.message, "Namespace not being watched: ")

\* C17: under /deployments/ a GET with the wrong number of segments answers
\* 400; one segment that decodes to a namespace without an informer answers
\* the not-watched 404; the not-watched 404 is never given to a path with the
\* wrong number of segments, and 400 is only given to such a path or to a
\* segment that cannot be decoded.
C17_MalformedVersusUnwatched ==
  \A p \in UnderDeployments :
    LET resp == CreateHandler([method |-> "GET", path |-> p]) IN
    /\ WrongSegmentCount(p) => resp.status = 400 /\ ~IsNotWatched404(resp)
    /\ (/\ ~WrongSegmentCount(p)
        /\ ~QueryUnescape(p[2]).err
        /\ ~HasInformer(QueryUnescape(p[2]).val))
         => IsNotWatched404(resp)
    /\ IsNotWatched404(resp) => ~WrongSegmentCount(p)
    /\ resp.status = 400
         => WrongSegmentCount(p) \/ QueryUnescape(p[2]).err
    /\ (conn.state = "responded" /\ conn.req = [method |-> "GET", path |-> p])
         => /\ WrongSegmentCount(p) => conn.resp.status = 400
            /\ IsNotWatched404(conn.resp) => ~WrongSegmentCount(p)

\* GET /deployments/a/b was answered 400 while b is watched and a is not
C17_Witness ==
  /\ conn.state = "responded"
  /\ conn.req = [method |-> "GET", path |-> <<"deployments", "a", "b">>]
  /\ conn.resp.status = 400
  /\ ~HasInformer("a")
  /\ HasInformer("b")
  /\ ByNamespace("a").status = 404
  /\ ByNamespace("b").status = 200

\* how many cases of the routing switch match the request
MatchingCases(req) ==
  Cardinality({c \in {"deployments", "byNamespace", "namespaces", "root"} :
    \/ c = "deployments" /\ IsGetDeployments(req)
    \/ c = "byNamespace" /\ IsGetDeploymentsByNamespace(req)
    \/ c = "namespaces" /\ IsGetNamespaces(req)
    \/ c = "root" /\ IsRoot(req)})

\* the answer the route table gives: root info, list namespaces, list all,
\* list by namespace, and the generic not-found answer for everything else
RouteTableAnswer(req) ==
  IF req.method = "GET" /\ req.path = <<"">> THEN handleRoot
  ELSE IF req.method = "GET" /\ req.path = <<"namespaces">>
  THEN handleGetNamespaces
  ELSE IF req.method = "GET" /\ req.path = <<"deployments">>
  THEN handleGetDeployments
  ELSE IF req.method = "GET" /\ Len(req.path) >= 2
          /\ req.path[1] = "deployments"
  THEN handleGetDeploymentsByNamespace(req.path)
  ELSE handleNotFound

\* C18: at most one case of the routing switch matches a request, and none
\* matches another method or an unknown path; a received request is answered
\* once, by the handler of its route (the not-found handler when no case
\* matches), and the answer then stays until the connection is closed.
C18_DispatchTotal ==
  /\ [](\A req \in AllRequests :
          /\ MatchingCases(req) <= 1
          /\ (req.method # "GET" \/ req.path \in {<<"unknown">>,
                <<"namespaces", "a">>, <<"", "deployments">>})
               => MatchingCases(req) = 0)
  /\ [][/\ (conn.state = "idle" /\ conn' # conn)
             => conn'.state = "received" /\ conn'.resp = NoResp
        /\ (conn.state = "received" /\ conn' # conn)
             => /\ conn'.state = "responded"
                /\ conn'.req = conn.req
                /\ conn'.resp = RouteTableAnswer(conn.req)
                /\ MatchingCases(conn.req) = 0
                     => /\ conn'.resp.status = 404
                        /\ conn'.resp.body.error = "Not Found"
        /\ (conn.state = "responded" /\ conn' # conn)
             => conn' = NoConn]_vars

\* a POST /deployments was answered by the not-found handler while a
\* namespace is watched
C18_Witness ==
  /\ conn.state = "responded"
  /\ conn.req = [method |-> "POST", path |-> <<"deployments">>]
  /\ conn.resp.status = 404
  /\ conn.resp.body.error = "Not Found"
  /\ GetAvailableNamespaces # {}

\* the error envelope: an error category and a message, nothing else
IsErrorEnvelope(body) ==
  /\ DOMAIN body = {"error", "message"}
  /\ body.error \in {"Request Error", "Not Found", "Internal Server Error"}
  /\ Len(body.message) >= 1

\* C19: every answer whose status is not 2xx has status 400, 404 or 500 and a
\* body made of an error field and a message field, whatever the route, and
\* so has the 500 written when serialization fails.
C19_UniformErrorEnvelope ==
  /\ \A req \in AllRequests :
       LET resp == CreateHandler(req) IN
       resp.status \notin 200..299
         => resp.status \in {400, 404, 500} /\ IsErrorEnvelope(resp.body)
  /\ \A statusCode \in StatusCodes :
       /\ writeJSONResponse(Unsupported, statusCode).status = 500
       /\ IsErrorEnvelope(writeJSONResponse(Unsupported, statusCode).body)
  /\ (conn.state = "responded" /\ conn.resp.status \notin 200..299)
       => /\ conn.resp.status \in {400, 404, 500}
          /\ IsErrorEnvelope(conn.resp.body)

\* a request for an unknown endpoint was answered 404 in the envelope
C19_Witness ==
  /\ conn.state = "responded"
  /\ conn.req = [method |-> "GET", path |-> <<"unknown">>]
  /\ conn.resp.status = 404
  /\ IsErrorEnvelope(conn.resp.body)

\* the fixed answer to a serialization failure
GenericInternalError ==
  [status |-> 500,
   body |-> [error |-> "Internal Server Error",
             message |-> <<"Failed to serialize response">>]]

\* C20: a handler whose value cannot be serialized answers the generic 500
\* whatever status it intended, and a value that can be serialized is sent
\* with the intended status; the process and the listener are untouched, the
\* answer is sent, and the next request is accepted and answered.
C20_SerializationFailureIs500 ==
  /\ [][/\ \A statusCode \in StatusCodes :
             /\ writeJSONResponse(Unsupported, statusCode)
                  = GenericInternalError
             /\ \A data \in ResponseData \ {Unsupported} :
                  writeJSONResponse(data, statusCode)
                    = [status |-> statusCode, body |-> data]
        /\ (conn.state = "received" /\ conn' # conn)
             => /\ conn'.state = "responded"
                /\ conn'.resp.body # Unsupported
                /\ conn'.resp # GenericInternalError
                     => conn'.resp.body \in ResponseData
                /\ pc' = pc /\ listener' = "serving"]_vars
  /\ (conn.state = "responded" /\ conn.resp = GenericInternalError)
       ~> (conn.state = "idle" /\ listener = "serving" /\ Alive)
  /\ (conn.state = "received") ~> (conn.state = "responded")

\* the generic 500 was sent for a request while the listener goes on serving
C20_Witness ==
  /\ conn.state = "responded"
  /\ conn.resp = GenericInternalError
  /\ listener = "serving"
  /\ Alive

\* C21: GET /namespaces answers 200 in every state, also with no watched
\* namespace; the answer written for a request holds GetAvailableNamespaces
\* as it is when the handler runs, and count is the size of that list.
C21_NamespacesAlways200 ==
  /\ [](/\ handleGetNamespaces.status = 200
        /\ handleGetNamespaces.body.namespaces = GetAvailableNamespaces
        /\ handleGetNamespaces.body.count
             = Cardinality(handleGetNamespaces.body.namespaces)
        /\ CreateHandler([method |-> "GET", path |-> <<"namespaces">>])
             = handleGetNamespaces)
  /\ [][(/\ conn.state = "received"
         /\ conn.req = [method |-> "GET", path |-> <<"namespaces">>]
         /\ conn' # conn)
          => /\ conn'.resp.status = 200
             /\ conn'.resp.body.namespaces = GetAvailableNamespaces
             /\ conn'.resp.body.count = Cardinality(GetAvailableNamespaces)]_vars

\* GET /namespaces was answered 200 with an empty list by a server whose only
\* watcher failed its sync
C21_Witness ==
  /\ conn.state = "responded"
  /\ conn.req = [method |-> "GET", path |-> <<"namespaces">>]
  /\ conn.resp.status = 200
  /\ conn.resp.body.namespaces = {}
  /\ conn.resp.body.count = 0
  /\ \E n \in Namespaces : wstate[n] = "Failed"

\* the lifecycle graph of a watcher
LifecycleEdges ==
  {<<"None", "Created">>, <<"Created", "Syncing">>, <<"Syncing", "Ready">>,
   <<"Syncing", "Failed">>, <<"Ready", "ShuttingDown">>,
   <<"ShuttingDown", "Stopped">>}

\* C26: every change of a watcher's state follows Created, Syncing, Ready,
\* ShuttingDown, Stopped, or Syncing to Failed; a Failed or Stopped watcher
\* never changes again.
C26_LifecycleOrder ==
  [][\A n \in Namespaces :
       /\ wstate'[n] # wstate[n] => <<wstate[n], wstate'[n]>> \in LifecycleEdges
       /\ wstate[n] \in {"Failed", "Stopped"} => wstate'[n] = wstate[n]
       /\ (wstate'[n] = "Failed" /\ wstate[n] # "Failed")
            => wstate[n] = "Syncing"]_vars

\* one watcher went all the way to Stopped and another one is Failed
C26_Witness ==
  \E n, m \in Namespaces : wstate[n] = "Stopped" /\ wstate[m] = "Failed"

StartupPositions ==
  {"start", "loop", "start_informer", "sync_wait", "new_manager", "http"}

Pending(ns) ==
  {emitted[ns][k] : k \in (applied[ns] + 1)..Len(emitted[ns])}

\* the namespace's watcher is Ready in a live process
ReadyWatcher(ns) == Alive /\ wstate[ns] = "Ready"

\* C22: after a Deployment is created in a namespace whose watcher is Ready,
\* its name eventually appears in the names the watcher lists, and after it is
\* deleted the name eventually disappears, as long as the watcher stays Ready
C22_RoundTrip ==
  \A ns \in Namespaces, name \in Names :
    /\ (ReadyWatcher(ns) /\ [type |-> "ADDED", name |-> name] \in Pending(ns))
         ~> (name \in GetDeploymentNames(ns) \/ ~ReadyWatcher(ns))
    /\ (ReadyWatcher(ns) /\ [type |-> "DELETED", name |-> name] \in Pending(ns))
         ~> (name \notin GetDeploymentNames(ns) \/ ~ReadyWatcher(ns))

\* a Ready watcher has applied a creation and then a deletion: the created name
\* was listed, and the deleted one is gone
C22_Witness ==
  \E ns \in Namespaces, x, y \in Names :
    /\ ReadyWatcher(ns)
    /\ emitted[ns] = <<[type |-> "DELETED", name |-> x],
                       [type |-> "ADDED", name |-> x]>>
    /\ applied[ns] = 2
    /\ x \in GetDeploymentNames(ns)
    /\ y \in GetDeploymentNames(ns) /\ y # x

\* the event the watcher of ns applied last
LastApplied(ns) == emitted[ns][applied[ns]]

\* what a client is told about the Deployments of ns
NamesResponse(ns) == handleGetDeploymentsByNamespace(<<"deployments", ns>>)

\* C23: applying an update event, in which the Deployment keeps its name,
\* leaves the listed names and the count in the HTTP responses unchanged
C23_UpdateKeepsNames ==
  [][\A ns \in Namespaces :
       (/\ applied'[ns] = applied[ns] + 1
        /\ emitted[ns][applied[ns] + 1].type = "MODIFIED")
       => /\ GetDeploymentNames(ns)' = GetDeploymentNames(ns)
          /\ store'[ns] = store[ns]
          /\ NamesResponse(ns)' = NamesResponse(ns)
          /\ handleGetDeployments' = handleGetDeployments]_vars

\* a Ready watcher has just applied an update of a Deployment it lists
C23_Witness ==
  \E ns \in Namespaces :
    /\ ReadyWatcher(ns)
    /\ applied[ns] > 0
    /\ LastApplied(ns).type = "MODIFIED"
    /\ LastApplied(ns).name \in GetDeploymentNames(ns)
    /\ NamesResponse(ns).status = 200
    /\ NamesResponse(ns).body.count = 2

\* the events of ns that are about one Deployment, as positions in emitted
EventsOf(ns, name) ==
  {k \in 1..Len(emitted[ns]) : emitted[ns][k].name = name}

\* the last event emitted about a Deployment
LastEventOf(ns, name) ==
  emitted[ns][CHOOSE k \in EventsOf(ns, name) :
                \A j \in EventsOf(ns, name) : j <= k]

\* C24: the events of a namespace are applied to the cache in the order they
\* were emitted, so once all are applied a name is in the cache exactly when
\* the last event about it was not a delete
C24_EmissionOrder ==
  /\ [](\A ns \in Namespaces, name \in Names :
          (/\ WatchOpen(ns)
           /\ applied[ns] = Len(emitted[ns])
           /\ EventsOf(ns, name) # {})
          => (name \in store[ns] <=> LastEventOf(ns, name).type # "DELETED"))
  /\ [][\A ns \in Namespaces :
          applied'[ns] # applied[ns]
          => /\ applied'[ns] = applied[ns] + 1
             /\ store'[ns] = ApplyDelta(store[ns], emitted[ns][applied[ns] + 1])
             /\ emitted'[ns] = emitted[ns]]_vars

\* a Deployment was deleted and created again, another one only updated, and
\* the watcher has applied both events about the first
C24_Witness ==
  \E ns \in Namespaces, name \in Names :
    /\ ReadyWatcher(ns)
    /\ Len(emitted[ns]) = 2
    /\ applied[ns] = 2
    /\ emitted[ns][1] = [type |-> "DELETED", name |-> name]
    /\ emitted[ns][2] = [type |-> "ADDED", name |-> name]
    /\ name \in store[ns]

\* the cluster's Deployments before an event was emitted
UndoDelta(names, event) ==
  IF event.type = "ADDED" THEN names \ {event.name}
  ELSE names \cup {event.name}

\* the Deployments the watcher of ns listed when it opened its watch: the
\* cluster's Deployments with every emitted event undone, newest first
RECURSIVE Listed(_, _)
Listed(ns, k) ==
  IF k = Len(emitted[ns]) THEN clusterDeployments[ns]
  ELSE UndoDelta(Listed(ns, k + 1), emitted[ns][k + 1])

\* the cache after the first k events of ns, each applied whole
RECURSIVE Replay(_, _)
Replay(ns, k) ==
  IF k = 0 THEN Listed(ns, 0)
  ELSE ApplyDelta(Replay(ns, k - 1), emitted[ns][k])

\* C25: a cache update is atomic for readers: what the cache holds, and what
\* a reader is given, is always the listed names with a whole number of
\* events applied, never a part of an update
C25_AtomicCacheUpdate ==
  \A ns \in Namespaces :
    WatchOpen(ns)
    => /\ store[ns] = Replay(ns, applied[ns])
       /\ wstate[ns] = "Ready"
          => /\ GetDeploymentNames(ns) = Replay(ns, applied[ns])
             /\ NamesResponse(ns).body.deployments = Replay(ns, applied[ns])
             /\ NamesResponse(ns).body.count
                  = Cardinality(Replay(ns, applied[ns]))

\* a client was answered while one event was applied and a delete was pending
C25_Witness ==
  \E ns \in Namespaces :
    /\ ReadyWatcher(ns)
    /\ conn.state = "responded"
    /\ conn.req = [method |-> "GET", path |-> <<"deployments", ns>>]
    /\ applied[ns] = 1
    /\ Len(emitted[ns]) = 2
    /\ emitted[ns][2].type = "DELETED"
    /\ conn.resp.body.deployments = store[ns]

\* C27: a watcher leaves Ready only to ShuttingDown and only when the shared
\* context is cancelled, and never becomes Ready again; no timeout, event or
\* request moves a Ready watcher
C27_ReadyLeftOnlyByCancel ==
  [][\A n \in Namespaces :
       /\ (wstate[n] = "Ready" /\ wstate'[n] # "Ready")
            => (ctxDone /\ wstate'[n] = "ShuttingDown")
       /\ (wstate[n] \in {"ShuttingDown", "Stopped", "Failed"})
            => wstate'[n] # "Ready"
       /\ (wstate[n] = "Ready" /\ (conn' # conn \/ applied' # applied
                                   \/ emitted' # emitted))
            => wstate'[n] = "Ready"]_vars

\* a watcher that applied an event and whose names were served left Ready
\* after the context was cancelled
C27_Witness ==
  \E n \in Namespaces :
    /\ wstate[n] = "ShuttingDown"
    /\ ctxDone
    /\ applied[n] > 0
    /\ conn.state = "responded"
    /\ conn.req = [method |-> "GET", path |-> <<"deployments", n>>]
    /\ conn.resp.status = 200

\* the result of a Reconcile that did nothing
Ignored == [read |-> FALSE, found |-> FALSE, err |-> FALSE, requeue |-> FALSE]

\* C30: the reconciler ignores an event or request whose namespace is outside
\* its set: it does not read the cluster and returns success with no requeue;
\* the controller never queues such an event
C30_OutsideNamespacesIgnored ==
  /\ [](/\ \A req \in ReconcileRequests, getErr \in BOOLEAN :
             req.namespace \notin Range(r_Namespaces)
             => Reconcile(req, getErr) = Ignored
        /\ \A req \in workqueue : req.namespace \in Range(r_Namespaces)
        /\ reconcile.namespace \notin Range(r_Namespaces)
           => /\ ~reconcile.read
              /\ ~reconcile.err
              /\ ~reconcile.requeue)
  /\ [][\A namespace \in Namespaces :
          (/\ reconcile'.seen = reconcile.seen + 1
           /\ reconcile'.namespace = namespace
           /\ namespace \notin Range(r_Namespaces))
          => workqueue' = workqueue /\ ~reconcile'.passed]_vars

\* the controller queued an event of a namespace inside the set and then
\* dropped one of a namespace outside it, without a read
C30_Witness ==
  /\ reconcile.seen = 2
  /\ reconcile.namespace \in Namespaces \ Range(r_Namespaces)
  /\ ~reconcile.passed
  /\ ~reconcile.read
  /\ workqueue # {}
  /\ \A req \in workqueue : req.namespace \in Range(r_Namespaces)

\* a source gives the setting a value
Sets(value) == value \notin {Unset, ""}

\* the value of the highest-priority source that sets the setting
HighestPriority(s) ==
  IF Sets(s.cli) THEN s.cli
  ELSE IF Sets(s.env) THEN s.env
  ELSE IF Sets(s.file) THEN s.file
  ELSE Default(s.setting)

\* C31 as stated: with a readable .env file, the value Run uses for a setting
\* is that of the highest-priority source that sets it, in the order command
\* line, environment, .env file, built-in default
C31_ConfigPriority ==
  (cfg # "<unresolved>" /\ sources.fileOk)
  => cfg = IF sources.setting = "KUBECONFIG"
           THEN ExpandTilde(HighestPriority(sources))
           ELSE HighestPriority(sources)

\* C32 as stated: no request is handled after the shared context has been
\* cancelled, whatever triggered the shutdown
C32_NoRequestAfterCancel ==
  [][(conn.state = "received" /\ conn'.state = "responded") => ~ctxDone]_vars

\* the entries of a finished handleGetDeployments
Entries == {scan.responses[i] : i \in 1..Len(scan.responses)}

ListedByNamespaces(ns) == ns \in handleGetNamespaces.body.namespaces

\* GET /deployments answers 200 with an entry for the namespace
HasEntry(ns) ==
  /\ handleGetDeployments.status = 200
  /\ \E i \in 1..Len(handleGetDeployments.body.namespaces) :
       handleGetDeployments.body.namespaces[i].namespace = ns

\* the three read routes agree about one namespace
RoutesAgree(ns) ==
  /\ NamesResponse(ns).status = 200 <=> ListedByNamespaces(ns)
  /\ NamesResponse(ns).status = 200 <=> HasEntry(ns)

C35_ShutdownTerminates ==
  ([]<>(conn = NoConn)) => ((trigger # "none") ~> (pc = "done"))

\* a call of Reconcile has returned in this step
ReconcileReturned ==
  /\ reconcile'.called
  /\ reconcile' # reconcile \/ workqueue' # workqueue

\* C36: Reconcile never changes the cluster: when it has returned without
\* error every Deployment that existed still exists with its spec unchanged
\* and none has been created or deleted
C36_ReconcileReadOnly ==
  [][(ReconcileReturned /\ ~reconcile'.err)
     => /\ clusterDeployments' = clusterDeployments
        /\ replicas' = replicas
        /\ clusterNamespaces' = clusterNamespaces]_vars

\* Reconcile has read a Deployment whose replicas a client had just changed,
\* and the change is still there
C36_Witness ==
  /\ reconcile.called
  /\ reconcile.read
  /\ reconcile.found
  /\ ~reconcile.err
  /\ reconcile.namespace \in Namespaces
  /\ reconcile.name \in clusterDeployments[reconcile.namespace]
  /\ replicas[reconcile.namespace][reconcile.name] = 3

\* the namespaces the controller's filter and Reconcile accept
Accepted == {ns \in Namespaces : namespacePredicate(ns)}

\* C37 as stated: every namespace the reconciler accepts has a registered
\* watcher, so a configured namespace skipped at startup is not reconciled
C37_AcceptedAreWatched ==
  mgr # "none"
  => /\ \A ns \in Accepted : HasInformer(ns)
     /\ reconcile.read => HasInformer(reconcile.namespace)

\* C37: every namespace the reconciler accepts is a configured namespace, and
\* every configured namespace is accepted, with or without a registered
\* watcher
C37_AcceptedAreConfigured ==
  mgr # "none"
  => /\ Accepted = ConfiguredSet
     /\ reconcile.read => reconcile.namespace \in ConfiguredSet
     /\ \A req \in workqueue : req.namespace \in ConfiguredSet

\* Reconcile has read a Deployment of a configured namespace whose watcher
\* failed its sync and is not registered
C37_Witness ==
  /\ mgr = "running"
  /\ reconcile.read
  /\ reconcile.found
  /\ reconcile.namespace \in ConfiguredSet
  /\ ~HasInformer(reconcile.namespace)
  /\ wstate[reconcile.namespace] = "Failed"

\* C38: serving a request changes no watch state: the registry, the watchers'
\* states and their caches are the same after the response as before the
\* handler ran, for every method and path
C38_ServingLeavesWatchState ==
  [][(conn.state = "received" /\ conn'.state = "responded")
     => /\ informers' = informers
        /\ store' = store
        /\ wstate' = wstate
        /\ hasSynced' = hasSynced
        /\ applied' = applied
        /\ \A ns \in Namespaces : HasInformer(ns)' = HasInformer(ns)]_vars

\* a request with another method than GET was answered while a Ready watcher
\* had applied two events
C38_Witness ==
  /\ conn.state = "responded"
  /\ conn.req.method = "POST"
  /\ conn.resp.status = 404
  /\ informers # {}
  /\ \E ns \in Namespaces : applied[ns] = 2 /\ wstate[ns] = "Ready"

============================================================================
